---- MODULE Spec2Model ----
(***************************************************************************)
(* Model of CleanFoodMatcher (src/src/clean_food_matcher.py): the          *)
(* reference table, the two indexes built by __init__, the name resolver   *)
(* find_food, the segmenter extract_foods_with_quantities and the          *)
(* aggregator get_nutrition_data; and of the session of the application   *)
(* (src/app.py) that calls them when Analyze or Clear is pressed.          *)
(*                                                                         *)
(* Text is a TLA+ string; Len, SubSeq and \o act on strings character by   *)
(* character.  Python's str and re operations are modelled by what they do *)
(* on the characters.                                                      *)
(***************************************************************************)
EXTENDS Integers, Sequences, FiniteSets, TLC

(***************************************************************************)
(* Python str primitives                                                   *)
(***************************************************************************)

\* s[i-1] in Python: the i-th character (1-based) as a one-character string
Ch(s, i) == SubSeq(s, i, i)

\* s[i-1:] in Python
From(s, i) == SubSeq(s, i, Len(s))

UpperLetters == "ABCDEFGHIJKLMNOPQRSTUVWXYZ"
LowerLetters == "abcdefghijklmnopqrstuvwxyz"
Digits == "0123456789"

CharsOf(s) == {Ch(s, i) : i \in 1..Len(s)}

LowerOf == [c \in CharsOf(UpperLetters) |->
              Ch(LowerLetters, CHOOSE i \in 1..Len(UpperLetters) : Ch(UpperLetters, i) = c)]

\* str.lower() on one character
LowerCh(c) == IF c \in DOMAIN LowerOf THEN LowerOf[c] ELSE c

RECURSIVE LowerFrom(_, _)
LowerFrom(s, i) == IF i > Len(s) THEN "" ELSE LowerCh(Ch(s, i)) \o LowerFrom(s, i + 1)

\* str.lower()
Lower(s) == LowerFrom(s, 1)

\* the characters str.strip(), str.split() and the regex class \s take as whitespace
SpaceChars == {" ", "\t", "\n", "\r"}
IsSpace(c) == c \in SpaceChars

\* the regex class \d
DigitChars == CharsOf(Digits)
IsDigit(c) == c \in DigitChars

\* the regex class \w
WordChars == CharsOf(UpperLetters) \cup CharsOf(LowerLetters) \cup CharsOf(Digits) \cup {"_"}
IsWordChar(c) == c \in WordChars

RECURSIVE SkipSpace(_, _)
\* first position >= i of s that holds no whitespace (Len(s)+1 if none)
SkipSpace(s, i) == IF i <= Len(s) /\ IsSpace(Ch(s, i)) THEN SkipSpace(s, i + 1) ELSE i

RECURSIVE SkipSpaceBack(_, _)
\* last position <= i of s that holds no whitespace (0 if none)
SkipSpaceBack(s, i) == IF i >= 1 /\ IsSpace(Ch(s, i)) THEN SkipSpaceBack(s, i - 1) ELSE i

\* str.strip()
Strip(s) == SubSeq(s, SkipSpace(s, 1), SkipSpaceBack(s, Len(s)))

RECURSIVE SkipWord(_, _)
\* first position >= i of s that holds whitespace (Len(s)+1 if none)
SkipWord(s, i) == IF i <= Len(s) /\ ~IsSpace(Ch(s, i)) THEN SkipWord(s, i + 1) ELSE i

RECURSIVE SplitFrom(_, _)
SplitFrom(s, i) ==
    LET a == SkipSpace(s, i)
        b == SkipWord(s, a)
    IN  IF a > Len(s) THEN <<>> ELSE <<SubSeq(s, a, b - 1)>> \o SplitFrom(s, b)

\* str.split() without arguments: the whitespace-delimited words
Split(s) == SplitFrom(s, 1)

\* s.startswith(p, i-1): p occurs in s at position i
OccursAt(s, p, i) == i >= 1 /\ i + Len(p) - 1 <= Len(s) /\ SubSeq(s, i, i + Len(p) - 1) = p

\* s.startswith(p)
StartsWith(s, p) == OccursAt(s, p, 1)

\* "p in s" on Python strings
Contains(s, p) == \E i \in 1..(Len(s) - Len(p) + 1) : OccursAt(s, p, i)

(***************************************************************************)
(* Python re primitives used by the matcher                                *)
(***************************************************************************)

\* the regex assertion \b between positions i-1 and i of s
WordBoundary(s, i) ==
    LET before == i >= 2 /\ i - 1 <= Len(s) /\ IsWordChar(Ch(s, i - 1))
        after  == i >= 1 /\ i <= Len(s) /\ IsWordChar(Ch(s, i))
    IN  before # after

\* the alternatives of alts (in order) that \b(a1|a2|...)\b matches at position i
WordAltsAt(s, i, alts) ==
    IF WordBoundary(s, i)
    THEN {k \in 1..Len(alts) : OccursAt(s, alts[k], i) /\ WordBoundary(s, i + Len(alts[k]))}
    ELSE {}

Min(S) == CHOOSE x \in S : \A y \in S : x <= y
Max(S) == CHOOSE x \in S : \A y \in S : x >= y

RECURSIVE SubWords(_, _, _, _)
\* re.sub(r'\b(a1|a2|...)\b', repl, s), scanning from position i
SubWords(s, i, alts, repl) ==
    IF i > Len(s) THEN ""
    ELSE LET hit == WordAltsAt(s, i, alts)
         IN  IF hit # {}
             THEN repl \o SubWords(s, i + Len(alts[Min(hit)]), alts, repl)
             ELSE Ch(s, i) \o SubWords(s, i + 1, alts, repl)

RECURSIVE CollapseSpace(_, _)
\* re.sub(r'\s+', ' ', s), scanning from position i
CollapseSpace(s, i) ==
    IF i > Len(s) THEN ""
    ELSE IF IsSpace(Ch(s, i)) THEN " " \o CollapseSpace(s, SkipSpace(s, i))
    ELSE Ch(s, i) \o CollapseSpace(s, i + 1)

\* the alternatives of alts that \b(a1|a2|...): matches at position i
LabelAltsAt(s, i, alts) ==
    IF WordBoundary(s, i)
    THEN {k \in 1..Len(alts) : OccursAt(s, alts[k] \o ":", i)}
    ELSE {}

RECURSIVE SubLabels(_, _, _, _)
\* re.sub(r'\b(a1|a2|...):\s*', repl, s), scanning from position i
SubLabels(s, i, alts, repl) ==
    IF i > Len(s) THEN ""
    ELSE LET hit == LabelAltsAt(s, i, alts)
         IN  IF hit # {}
             THEN repl \o SubLabels(s, SkipSpace(s, i + Len(alts[Min(hit)]) + 1), alts, repl)
             ELSE Ch(s, i) \o SubLabels(s, i + 1, alts, repl)

RECURSIVE SplitAt(_, _, _, _)
\* re.split on a class of single characters: the pieces of s between the
\* characters of seps, empty pieces included; a is the start of the current piece
SplitAt(s, a, i, seps) ==
    IF i > Len(s) THEN <<SubSeq(s, a, Len(s))>>
    ELSE IF Ch(s, i) \in seps THEN <<SubSeq(s, a, i - 1)>> \o SplitAt(s, i + 1, i + 1, seps)
    ELSE SplitAt(s, a, i + 1, seps)

(***************************************************************************)
(* difflib.SequenceMatcher(None, a, b).ratio()  (no junk; the autojunk      *)
(* heuristic needs len(b) >= 200 and never applies to food names)          *)
(***************************************************************************)

RECURSIVE RunLen(_, _, _, _, _, _)
\* length of the common run of a[i..ahi-1] and b[j..bhi-1] that starts at i, j
RunLen(a, b, i, j, ahi, bhi) ==
    IF i < ahi /\ j < bhi /\ Ch(a, i) = Ch(b, j)
    THEN 1 + RunLen(a, b, i + 1, j + 1, ahi, bhi)
    ELSE 0

\* SequenceMatcher.find_longest_match(alo, ahi, blo, bhi): the longest block,
\* the one starting earliest in a, then earliest in b  (positions 1-based,
\* ahi and bhi exclusive)
find_longest_match(a, b, alo, ahi, blo, bhi) ==
    LET lens == {RunLen(a, b, i, j, ahi, bhi) : i \in alo..(ahi - 1), j \in blo..(bhi - 1)}
        k    == IF lens = {} THEN 0 ELSE Max(lens)
        i0   == Min({i \in alo..(ahi - 1) : \E j \in blo..(bhi - 1) : RunLen(a, b, i, j, ahi, bhi) = k})
        j0   == Min({j \in blo..(bhi - 1) : RunLen(a, b, i0, j, ahi, bhi) = k})
    IN  IF k = 0 THEN <<alo, blo, 0>> ELSE <<i0, j0, k>>

RECURSIVE MatchedChars(_, _, _, _, _, _)
\* sum of the sizes of SequenceMatcher.get_matching_blocks() within the window
MatchedChars(a, b, alo, ahi, blo, bhi) ==
    LET m == find_longest_match(a, b, alo, ahi, blo, bhi)
        i == m[1]
        j == m[2]
        k == m[3]
    IN  IF k = 0 THEN 0
        ELSE k + (IF alo < i /\ blo < j THEN MatchedChars(a, b, alo, i, blo, j) ELSE 0)
               + (IF i + k < ahi /\ j + k < bhi THEN MatchedChars(a, b, i + k, ahi, j + k, bhi) ELSE 0)

\* SequenceMatcher.ratio() = 2.0 * matches / (len(a) + len(b)), 1.0 when both are
\* empty; kept as the fraction <<numerator, denominator>>
ratio(a, b) ==
    IF Len(a) + Len(b) = 0 THEN <<1, 1>>
    ELSE <<2 * MatchedChars(a, b, 1, Len(a) + 1, 1, Len(b) + 1), Len(a) + Len(b)>>

\* comparisons of scores kept as fractions with positive denominators
FracGT(x, y) == x[1] * y[2] > y[1] * x[2]
FracGE(x, y) == x[1] * y[2] >= y[1] * x[2]
FracLT(x, y) == x[1] * y[2] < y[1] * x[2]

(***************************************************************************)
(* The matcher object: self.db, self.search_index, self.exact_matches      *)
(***************************************************************************)

\* find_food's "no match" (Python None); no display name contains "<"
None == "<None>"

\* a Python dict as a function; d[k] = v
EmptyDict == [k \in {} |-> None]
\* Put storing the key where the value belongs
PutKey(d, k, v) == [x \in DOMAIN d \cup {k} |-> IF x = k THEN k ELSE d[x]]
Put(d, k, v) == [x \in DOMAIN d \cup {k} |-> IF x = k THEN v ELSE d[x]]

\* the guard without the single-word priority: the first food seen keeps the slot
TakesFreeSlot(word, exact, name) == word \notin DOMAIN exact

\* the guard that lets every food take the slot: the last food seen holds it
TakesSlotAlways(word, exact, name) == TRUE

\* the guard of line 29, as written
TakesSlot(word, exact, name) == word \notin DOMAIN exact \/ Len(Split(name)) = 1

RECURSIVE IndexWords(_, _, _, _, _)
\* lines 26-30: the loop over the words of one lowercased name
IndexWords(exact, name, words, j, display_name) ==
    IF j > Len(words) THEN exact
    ELSE IndexWords(IF Len(words[j]) > 2 /\ TakesSlot(words[j], exact, name)
                    THEN Put(exact, words[j], display_name)
                    ELSE exact,
                    name, words, j + 1, display_name)

RECURSIVE BuildIndexesKeyedByName(_, _, _, _)
\* the loop over the rows with the full-name index keyed by the name as written
BuildIndexesKeyedByName(db, i, search, exact) ==
    IF i > Len(db) THEN <<search, exact>>
    ELSE LET name == Lower(db[i].display_name)
         IN  BuildIndexesKeyedByName(db, i + 1,
                                     Put(search, db[i].display_name, db[i].display_name),
                                     IndexWords(exact, name, Split(name), 1, db[i].display_name))

RECURSIVE BuildIndexes(_, _, _, _)
\* lines 21-30: the loop over the rows; returns <<search_index, exact_matches>>
BuildIndexes(db, i, search, exact) ==
    IF i > Len(db) THEN <<search, exact>>
    ELSE LET name == Lower(db[i].display_name)
         IN  BuildIndexes(db, i + 1,
                          Put(search, name, db[i].display_name),
                          IndexWords(exact, name, Split(name), 1, db[i].display_name))

\* CleanFoodMatcher.__init__ on an already loaded table
NewMatcher(table) ==
    LET built == BuildIndexes(table, 1, EmptyDict, EmptyDict)
    IN  [db |-> table, search_index |-> built[1], exact_matches |-> built[2]]

(***************************************************************************)
(* find_food                                                               *)
(***************************************************************************)

Modifiers == <<"with", "and", "of", "small", "large", "medium", "boiled", "fried",
               "grilled", "cooked", "raw", "baked", "steamed">>

\* the normalization without lower-casing
NormalizeKeepingCase(query) ==
    LET original_query == Strip(query)
    IN  Strip(CollapseSpace(SubWords(original_query, 1, Modifiers, " "), 1))

\* lines 34-38: the normalized query
Normalize(query) ==
    LET original_query == Strip(Lower(query))
    IN  Strip(CollapseSpace(SubWords(original_query, 1, Modifiers, " "), 1))

\* lines 40-42 and 44-46: the two dict lookups
SearchIndexHit(self, query) == query \in DOMAIN self.search_index
ExactMatchesHit(self, query) == query \in DOMAIN self.exact_matches

\* lines 49-51: rows whose lowercased display name equals the query
EqualRows(self, query) ==
    {i \in 1..Len(self.db) : query = Lower(self.db[i].display_name)}

\* lines 54-61: rows that contain every word and the whole query
PhraseRows(self, query) ==
    LET words == Split(query)
    IN  IF Len(words) > 1
        THEN {i \in 1..Len(self.db) :
                LET display_lower == Lower(self.db[i].display_name)
                IN  /\ \A w \in 1..Len(words) : Contains(display_lower, words[w])
                    /\ Contains(display_lower, query)}
        ELSE {}

\* The scores of lines 73-84 are binary doubles: 0.5, then + 0.3, + len(word) * 0.05
\* and - 0.2, each sum rounded.  Some of them come out above the double nearest to
\* their decimal value, by one or two units in the last place; the code compares
\* the doubles, so two scores with the same decimal value need not be equal.
\* A score is <<hundredths, ulps>>: the decimal value and the units above the
\* double nearest to it.  The triples are <<starts, penalized, len(word)>> (1 for
\* yes), for the words of 3 to 20 characters.
OneUlpAbove ==
    { <<0, 0, 7>>, <<0, 0, 14>>, <<0, 0, 19>>,
      <<0, 1, 6>>, <<0, 1, 7>>, <<0, 1, 11>>, <<0, 1, 12>>, <<0, 1, 14>>, <<0, 1, 17>>, <<0, 1, 19>>,
      <<1, 0, 3>>, <<1, 0, 7>>, <<1, 0, 8>>, <<1, 0, 12>>, <<1, 0, 13>>, <<1, 0, 17>>, <<1, 0, 18>>,
      <<1, 1, 5>>, <<1, 1, 6>>, <<1, 1, 8>>, <<1, 1, 11>>, <<1, 1, 12>>, <<1, 1, 13>>,
      <<1, 1, 16>>, <<1, 1, 17>>, <<1, 1, 18>> }
TwoUlpsAbove == { <<1, 1, 7>> }

\* the rounding error of the sum of lines 73-84
ScoreUlps(starts, penalized, length) ==
    IF <<starts, penalized, length>> \in TwoUlpsAbove THEN 2
    ELSE IF <<starts, penalized, length>> \in OneUlpAbove THEN 1
    ELSE 0

\* the sum of lines 73-84 in exact decimal arithmetic: every score has the value
\* of its hundredths and no rounding error
ExactScore(starts, penalized, length) ==
    <<50 + 30 * starts + 5 * length - 20 * penalized, 0>>

\* lines 73-84 on the three things the score depends on
FloatScore(starts, penalized, length) ==
    <<50 + 30 * starts + 5 * length - 20 * penalized, ScoreUlps(starts, penalized, length)>>

\* x > y and x < y on doubles given as <<hundredths, ulps>>
ScoreGT(x, y) == x[1] > y[1] \/ (x[1] = y[1] /\ x[2] > y[2])
ScoreLT(x, y) == ScoreGT(y, x)

\* lines 73-84: the score of one (word, display name) pair
WordScore(word, display_name, nwords) ==
    LET display_lower == Lower(display_name)
    IN  FloatScore(IF StartsWith(display_lower, word) THEN 1 ELSE 0,
                   IF Len(Split(display_name)) > 1 /\ nwords = 1 THEN 1 ELSE 0,
                   Len(word))

\* lines 64-65: no candidate, best_score = 0
NoCandidate == <<None, <<0, 0>> >>

RECURSIVE ScoreLoop(_, _, _, _, _)
\* lines 67-88: the nested loop over words and rows; best = <<best_match, best_score>>
ScoreLoop(self, words, w, i, best) ==
    IF w > Len(words) THEN best
    ELSE IF i > Len(self.db) \/ ~(Len(words[w]) > 2) THEN ScoreLoop(self, words, w + 1, 1, best)
    ELSE LET display_name == self.db[i].display_name
             score == WordScore(words[w], display_name, Len(words))
         IN  IF Contains(Lower(display_name), words[w]) /\ ScoreGT(score, best[2])
             THEN ScoreLoop(self, words, w, i + 1, <<display_name, score>>)
             ELSE ScoreLoop(self, words, w, i + 1, best)

\* the threshold 0.7 of lines 91 and 94
Threshold == <<7, 10>>

RECURSIVE FuzzyLoopUnbounded(_, _, _, _)
\* the fuzzy loop without the bound "score >= 0.7"
FuzzyLoopUnbounded(self, query, i, best) ==
    IF i > Len(self.db) THEN best
    ELSE LET display_name == self.db[i].display_name
             score == ratio(query, Lower(display_name))
         IN  IF FracGT(score, best[2])
             THEN FuzzyLoopUnbounded(self, query, i + 1, <<display_name, score>>)
             ELSE FuzzyLoopUnbounded(self, query, i + 1, best)

RECURSIVE FuzzyLoopFirstAbove(_, _, _, _)
\* the fuzzy loop stopping at the first name whose ratio is 0.7 or more
FuzzyLoopFirstAbove(self, query, i, best) ==
    IF i > Len(self.db) THEN best
    ELSE LET display_name == self.db[i].display_name
             score == ratio(query, Lower(display_name))
         IN  IF FracGE(score, Threshold)
             THEN <<display_name, score>>
             ELSE FuzzyLoopFirstAbove(self, query, i + 1, best)

RECURSIVE FuzzyLoop(_, _, _, _)
\* lines 92-96: best = <<best_match, best_score>> with best_score a fraction
FuzzyLoop(self, query, i, best) ==
    IF i > Len(self.db) THEN best
    ELSE LET display_name == self.db[i].display_name
             score == ratio(query, Lower(display_name))
         IN  IF FracGT(score, best[2]) /\ FracGE(score, Threshold)
             THEN FuzzyLoop(self, query, i + 1, <<display_name, score>>)
             ELSE FuzzyLoop(self, query, i + 1, best)

\* the literal 0.7 of line 91 as a double
ScoreThreshold == <<70, 0>>

\* the two tiers with the fuzzy loop run whatever the best score is
ScoredThenFuzzyAlways(self, query) ==
    LET scored == ScoreLoop(self, Split(query), 1, 1, NoCandidate)
    IN  FuzzyLoop(self, query, 1, <<scored[1], <<scored[2][1], 100>> >>)[1]

\* lines 63-98: the scored tier followed by the fuzzy tier.  The fuzzy loop only
\* replaces best_score by a ratio of at least 0.7, which is above every score
\* below 0.7 whatever its rounding, so the loop is given the score as a fraction
ScoredThenFuzzy(self, query) ==
    LET scored == ScoreLoop(self, Split(query), 1, 1, NoCandidate)
        best   == <<scored[1], <<scored[2][1], 100>> >>
    IN  IF ScoreLT(scored[2], ScoreThreshold)
        THEN FuzzyLoop(self, query, 1, best)[1]
        ELSE best[1]

\* CleanFoodMatcher.find_food
find_food(self, raw) ==
    LET query == Normalize(raw)
    IN  IF SearchIndexHit(self, query) THEN self.search_index[query]
        ELSE IF ExactMatchesHit(self, query) THEN self.exact_matches[query]
        ELSE IF EqualRows(self, query) # {}
             THEN self.db[Min(EqualRows(self, query))].display_name
        ELSE IF PhraseRows(self, query) # {}
             THEN self.db[Min(PhraseRows(self, query))].display_name
        ELSE ScoredThenFuzzy(self, query)

(***************************************************************************)
(* extract_foods_with_quantities                                           *)
(***************************************************************************)

MealLabels == <<"breakfast", "lunch", "dinner", "snack", "morning", "afternoon", "evening">>
\* the connectors without "and"
ConnectorsWithOnly == <<"with">>
Connectors == <<"with", "and">>

\* the segments when the text is split at newlines and commas only
SegmentsKeepingPeriods(text) ==
    LET lowered  == Strip(Lower(text))
        labelled == SubLabels(lowered, 1, MealLabels, "\n")
        broken   == SubWords(labelled, 1, Connectors, ",")
    IN  SplitAt(broken, 1, 1, {"\n", ","})

\* lines 102-108: the segments of the text, before each is stripped
Segments(text) ==
    LET lowered  == Strip(Lower(text))
        labelled == SubLabels(lowered, 1, MealLabels, "\n")
        broken   == SubWords(labelled, 1, Connectors, ",")
    IN  SplitAt(broken, 1, 1, {"\n", ",", "."})

RECURSIVE SkipDigits(_, _)
SkipDigits(s, i) == IF i <= Len(s) /\ IsDigit(Ch(s, i)) THEN SkipDigits(s, i + 1) ELSE i

\* end (exclusive) of the greedy match of \d+(?:\.\d+)? that starts at the digit
\* at position p.  Giving back digits or the fraction never lets the rest of a
\* pattern match, since what follows must be whitespace or a unit word.
NumberEnd(s, p) ==
    LET e == SkipDigits(s, p)
    IN  IF e + 1 <= Len(s) /\ Ch(s, e) = "." /\ IsDigit(Ch(s, e + 1))
        THEN SkipDigits(s, e + 1)
        ELSE e

\* the unit words of the four unit patterns (lines 119-122): each alternative
\* with whether an optional "s" may follow it
UnitWords(unit) ==
    CASE unit = "cup"   -> << <<"cup", TRUE>> >>
      [] unit = "slice" -> << <<"slice", TRUE>> >>
      [] unit = "bowl"  -> << <<"bowl", TRUE>> >>
      [] unit = "tbsp"  -> << <<"tbsp", FALSE>>, <<"tablespoon", TRUE>> >>
      [] OTHER          -> << >>

\* start of group (.+) when \s+(.+) matches at position k of a segment, else 0
\* (a segment holds no newline and does not end in whitespace: lines 108, 113)
TextAfterSpace(s, k) ==
    IF k <= Len(s) /\ IsSpace(Ch(s, k)) /\ SkipSpace(s, k) <= Len(s) THEN SkipSpace(s, k) ELSE 0

\* start of the food text when \s*(unit word)\s+(.+) matches at position k, else 0
TextAfterUnit(s, k, unit) ==
    LET a    == SkipSpace(s, k)
        alts == UnitWords(unit)
        end(n) == LET e == a + Len(alts[n][1])
                  IN  IF alts[n][2] /\ e <= Len(s) /\ Ch(s, e) = "s" THEN e + 1 ELSE e
        ok   == {n \in 1..Len(alts) : OccursAt(s, alts[n][1], a) /\ TextAfterSpace(s, end(n)) # 0}
    IN  IF ok = {} THEN 0 ELSE TextAfterSpace(s, end(Min(ok)))

\* start of the food text when the rest of the pattern for unit matches at k
TextAfter(s, k, unit) ==
    IF unit = "count" THEN TextAfterSpace(s, k) ELSE TextAfterUnit(s, k, unit)

\* re.search(pattern, segment) for the pattern of unit: <<matched, group 1, food text>>,
\* the match being the one that starts leftmost
Search(segment, unit) ==
    LET starts == {p \in 1..Len(segment) :
                     IsDigit(Ch(segment, p)) /\ TextAfter(segment, NumberEnd(segment, p), unit) # 0}
        p0     == Min(starts)
    IN  IF starts = {} THEN <<FALSE, "", "">>
        ELSE <<TRUE, SubSeq(segment, p0, NumberEnd(segment, p0) - 1),
               From(segment, TextAfter(segment, NumberEnd(segment, p0), unit))>>

RECURSIVE GCD(_, _)
GCD(a, b) == IF b = 0 THEN a ELSE GCD(b, a % b)

\* a non-negative number as a fraction <<numerator, denominator>> in lowest terms
Frac(n, d) == IF n = 0 THEN <<0, 1>> ELSE <<n \div GCD(n, d), d \div GCD(n, d)>>

DigitValueOf == [c \in DigitChars |-> (CHOOSE i \in 1..Len(Digits) : Ch(Digits, i) = c) - 1]
DigitValue(c) == DigitValueOf[c]

RECURSIVE DecimalValue(_, _, _)
\* the digits of s from position i read as a number, acc being the value so far
DecimalValue(s, i, acc) ==
    IF i > Len(s) THEN acc
    ELSE IF IsDigit(Ch(s, i)) THEN DecimalValue(s, i + 1, 10 * acc + DigitValue(Ch(s, i)))
    ELSE DecimalValue(s, i + 1, acc)

RECURSIVE Pow10(_)
Pow10(n) == IF n = 0 THEN 1 ELSE 10 * Pow10(n - 1)

\* float(group 1) for a text matched by \d+(?:\.\d+)?
Float(s) ==
    LET dot == {i \in 1..Len(s) : Ch(s, i) = "."}
    IN  IF dot = {} THEN Frac(DecimalValue(s, 1, 0), 1)
        ELSE Frac(DecimalValue(s, 1, 0), Pow10(Len(s) - Min(dot)))

\* the patterns with the bare number tried first
PatternUnitsCountFirst == <<"count", "cup", "slice", "bowl", "tbsp">>

\* the patterns of lines 118-124, in order
PatternUnits == <<"cup", "slice", "bowl", "tbsp", "count">>

\* "if food_name:" on find_food's result
Truthy(food_name) == food_name # None /\ food_name # ""

\* the append without the duplicate check
AppendAlways(foods, mention) == Append(foods, mention)

\* lines 140-152 and 160-172: the mention is appended unless its food is there
AppendUnlessDuplicate(foods, mention) ==
    IF \E k \in 1..Len(foods) : foods[k].food = mention.food THEN foods ELSE Append(foods, mention)

\* the unit word a unit pattern matched in front of the food text: what stands
\* between the last digit and the food text
MatchedWord(segment, food_text) ==
    LET prefix == Strip(SubSeq(segment, 1, Len(segment) - Len(food_text)))
        d      == Max({i \in 1..Len(prefix) : IsDigit(Ch(prefix, i))})
    IN  Strip(From(prefix, d + 1))

RECURSIVE PatternLoopMatchedWord(_, _, _, _)
\* the loop that records the unit word as it was written ("cups", "tablespoons")
PatternLoopMatchedWord(self, segment, n, foods) ==
    IF n > Len(PatternUnits) THEN <<FALSE, foods>>
    ELSE LET unit  == PatternUnits[n]
             match == Search(segment, unit)
             qty   == Float(match[2])
             food_text == match[3]
             food_name == find_food(self, food_text)
         IN  IF match[1] /\ Truthy(food_name)
             THEN <<TRUE, AppendUnlessDuplicate(foods,
                            [food |-> food_name, quantity |-> qty,
                             unit |-> IF unit = "count" THEN unit ELSE MatchedWord(segment, food_text),
                             original_text |-> Strip(food_text)])>>
             ELSE PatternLoopMatchedWord(self, segment, n + 1, foods)

RECURSIVE PatternLoopStopAtFirstMatch(_, _, _, _)
\* the loop left at the first pattern that matches, whether or not its food
\* text resolves
PatternLoopStopAtFirstMatch(self, segment, n, foods) ==
    IF n > Len(PatternUnits) THEN <<FALSE, foods>>
    ELSE LET unit  == PatternUnits[n]
             match == Search(segment, unit)
             qty   == Float(match[2])
             food_text == match[3]
             food_name == find_food(self, food_text)
         IN  IF match[1]
             THEN <<TRUE, IF Truthy(food_name)
                          THEN AppendUnlessDuplicate(foods,
                                   [food |-> food_name, quantity |-> qty, unit |-> unit,
                                    original_text |-> Strip(food_text)])
                          ELSE foods>>
             ELSE PatternLoopStopAtFirstMatch(self, segment, n + 1, foods)

RECURSIVE PatternLoop(_, _, _, _)
\* lines 126-154: <<matched, foods>> after trying the patterns from number n on
PatternLoop(self, segment, n, foods) ==
    IF n > Len(PatternUnits) THEN <<FALSE, foods>>
    ELSE LET unit  == PatternUnits[n]
             match == Search(segment, unit)
             qty   == Float(match[2])
             food_text == match[3]
             food_name == find_food(self, food_text)
         IN  IF match[1] /\ Truthy(food_name)
             THEN <<TRUE, AppendUnlessDuplicate(foods,
                            [food |-> food_name, quantity |-> qty, unit |-> unit,
                             original_text |-> Strip(food_text)])>>
             ELSE PatternLoop(self, segment, n + 1, foods)

\* an unresolved segment that empties the list
WholeSegmentOrNothing(self, segment, foods) ==
    LET food_name == find_food(self, segment)
    IN  IF Truthy(food_name)
        THEN AppendUnlessDuplicate(foods,
                 [food |-> food_name, quantity |-> Frac(1, 1), unit |-> "serving",
                  original_text |-> Strip(segment)])
        ELSE << >>

\* lines 156-172: a segment none of the patterns resolved
WholeSegment(self, segment, foods) ==
    LET food_name == find_food(self, segment)
    IN  IF Truthy(food_name)
        THEN AppendUnlessDuplicate(foods,
                 [food |-> food_name, quantity |-> Frac(1, 1), unit |-> "serving",
                  original_text |-> Strip(segment)])
        ELSE foods

\* the list kept from call to call
KeptFoods(prior) == prior

\* the list "foods" at the start of a call (line 109); prior is the list the
\* previous call returned
FreshFoods(prior) == << >>

\* lines 113-172: one iteration of the loop over the segments: the list after it
SegmentStep(self, raw_segment, foods) ==
    LET segment == Strip(raw_segment)
    IN  IF segment = "" \/ Len(segment) < 3 THEN foods
        ELSE LET tried == PatternLoop(self, segment, 1, foods)
             IN  IF tried[1] THEN tried[2] ELSE WholeSegment(self, segment, foods)

RECURSIVE SegmentLoop(_, _, _, _)
\* lines 112-172: the loop over the segments
SegmentLoop(self, segments, n, foods) ==
    IF n > Len(segments) THEN foods
    ELSE SegmentLoop(self, segments, n + 1, SegmentStep(self, segments[n], foods))

\* CleanFoodMatcher.extract_foods_with_quantities
extract_foods_with_quantities(self, text, prior) ==
    SegmentLoop(self, Segments(text), 1, FreshFoods(prior))

(***************************************************************************)
(* get_nutrition_data                                                      *)
(***************************************************************************)

\* the unit factor with a cup counted as one portion
UnitFactorFlatCup(unit) ==
    CASE unit = "slice"   -> Frac(3, 10)
      [] unit = "bowl"    -> Frac(2, 1)
      [] unit = "tbsp"    -> Frac(15, 100)
      [] OTHER            -> Frac(1, 1)

\* lines 192-203: the unit factor
UnitFactor(unit) ==
    CASE unit = "cup"     -> Frac(15, 10)
      [] unit = "slice"   -> Frac(3, 10)
      [] unit = "bowl"    -> Frac(2, 1)
      [] unit = "tbsp"    -> Frac(15, 100)
      [] unit = "serving" -> Frac(1, 1)
      [] OTHER            -> Frac(1, 1)

\* lines 189-203: multiplier = quantity * unit factor
Multiplier(food_item) ==
    LET q == food_item.quantity
        f == UnitFactor(food_item.unit)
    IN  Frac(q[1] * f[1], q[2] * f[2])

\* round(x, 1) for x = <<n, d>> >= 0, in tenths: the nearest tenth, a tie going
\* to the even one
Round1(x) ==
    LET t == (10 * x[1]) \div x[2]
        r == (10 * x[1]) % x[2]
    IN  IF 2 * r > x[2] THEN t + 1
        ELSE IF 2 * r = x[2] THEN t + (t % 2)
        ELSE t

\* float('nan'), the missing value of pandas: no number of tenths, which are
\* never negative here
NaN == -1

\* a cell holding a str object (a cell of a column that read_csv could not parse
\* as numbers); the code never reads its text
StrCell == -2

\* round(row[column] * multiplier, 1), the table value and the result in tenths;
\* nan times a number is nan, and round(nan, 1) is nan
Scaled(tenths, multiplier) ==
    IF tenths = NaN THEN NaN ELSE Round1(<<tenths * multiplier[1], 10 * multiplier[2]>>)

\* the rows found when the food is looked up by its lowercased name
RowsNamedLower(self, food_name) == {i \in 1..Len(self.db) : self.db[i].display_name = Lower(food_name)}

\* self.db[self.db['display_name'] == food_name]: the matching rows, in order
RowsNamed(self, food_name) == {i \in 1..Len(self.db) : self.db[i].display_name = food_name}

\* lines 205-212: the record of one mention, from row match.iloc[0]
Record(self, food_item) ==
    LET row == self.db[Min(RowsNamed(self, food_item.food))]
        multiplier == Multiplier(food_item)
    IN  [food |-> food_item.food,
         quantity |-> <<food_item.quantity, food_item.unit>>,
         calories |-> Scaled(row.calories_per_100g, multiplier),
         protein |-> Scaled(row.protein_g, multiplier),
         carbs |-> Scaled(row.carbs_g, multiplier),
         fat |-> Scaled(row.fat_g, multiplier)]

\* the nutrient columns in the order lines 208-211 read them
NutrientColumns == <<"calories_per_100g", "protein_g", "carbs_g", "fat_g">>

\* the exception row[column] * multiplier raises: KeyError when the table has no
\* such column, TypeError for a str cell (the multiplier is a float); None
\* when it raises none
CellError(row, column) ==
    IF column \notin DOMAIN row THEN "KeyError"
    ELSE IF row[column] = StrCell THEN "TypeError"
    ELSE None

\* lines 205-212: the exception building the record of a mention raises, the
\* columns being read in order
RecordError(self, food_item) ==
    LET row == self.db[Min(RowsNamed(self, food_item.food))]
        bad == {c \in 1..Len(NutrientColumns) : CellError(row, NutrientColumns[c]) # None}
    IN  IF bad = {} THEN None ELSE CellError(row, NutrientColumns[Min(bad)])

\* lines 181-214: the exception get_nutrition_data raises, that of the first
\* mention whose record cannot be built; None when the call returns
NutritionError(self, foods) ==
    LET bad == {n \in 1..Len(foods) :
                  RowsNamed(self, foods[n].food) # {} /\ RecordError(self, foods[n]) # None}
    IN  IF bad = {} THEN None ELSE RecordError(self, foods[Min(bad)])

\* the iteration that reports nothing for a food the table does not have
NutritionStepKnownOnly(self, food_item, out) ==
    IF RowsNamed(self, food_item.food) # {}
    THEN <<Append(out[1], Record(self, food_item)), out[2]>>
    ELSE out

\* lines 182-214: one iteration of the loop over the mentions
NutritionStep(self, food_item, out) ==
    IF RowsNamed(self, food_item.food) # {}
    THEN <<Append(out[1], Record(self, food_item)), out[2]>>
    ELSE <<out[1], Append(out[2], food_item.original_text)>>

RECURSIVE NutritionLoop(_, _, _, _)
\* lines 181-214: <<nutrition_data, unknown_foods>> of a call that returns
NutritionLoop(self, foods, n, out) ==
    IF n > Len(foods) THEN out
    ELSE NutritionLoop(self, foods, n + 1, NutritionStep(self, foods[n], out))

\* CleanFoodMatcher.get_nutrition_data
get_nutrition_data(self, foods) == NutritionLoop(self, foods, 1, << << >>, << >> >>)

(***************************************************************************)
(* Loading the table: pd.read_csv and the loop of __init__                 *)
(***************************************************************************)

\* the columns the matcher reads
Columns == <<"display_name", "calories_per_100g", "protein_g", "carbs_g", "fat_g">>

\* a cell text that read_csv parses as a number (digits, with a fraction or not)
IsNumber(cell) == cell # "" /\ IsDigit(Ch(cell, 1)) /\ NumberEnd(cell, 1) = Len(cell) + 1

\* the number a cell text spells, in tenths
Tenths(cell) == LET x == Float(cell) IN (10 * x[1]) \div x[2]

\* the position of a column in the header of a file
ColumnAt(file, c) == CHOOSE k \in 1..Len(file.columns) : file.columns[k] = c

\* read_csv gives a column a numeric dtype when every cell is a number or empty
NumericColumn(file, k) ==
    \A r \in 1..Len(file.rows) : file.rows[r][k] = "" \/ IsNumber(file.rows[r][k])

\* the value read_csv gives a cell: an empty cell is NaN, a cell of a numeric
\* column its number, any other cell a str.  The display_name column keeps its
\* text, the empty text standing for NaN.
ParseCell(file, r, k) ==
    LET cell == file.rows[r][k]
    IN  IF file.columns[k] = "display_name" THEN cell
        ELSE IF cell = "" THEN NaN
        ELSE IF NumericColumn(file, k) THEN Tenths(cell)
        ELSE StrCell

\* line 15: the rows of the frame pd.read_csv returns for a readable file
read_csv(file) ==
    [r \in 1..Len(file.rows) |->
        [c \in {file.columns[k] : k \in 1..Len(file.columns)} |-> ParseCell(file, r, ColumnAt(file, c))]]

\* lines 15-22: the exception the constructor raises: read_csv on a file it
\* cannot read, row['display_name'] on a table without that column,
\* .lower() on the NaN of a row without a name; None when it raises none
InitError(file) ==
    IF ~file.readable THEN "FileNotFoundError"
    ELSE LET frame == read_csv(file)
         IN  IF Len(frame) = 0 THEN None
             ELSE IF "display_name" \notin DOMAIN frame[1] THEN "KeyError"
             ELSE IF \E r \in 1..Len(frame) : frame[r].display_name = "" THEN "AttributeError"
             ELSE None

\* a well-formed file
GoodFile ==
    [readable |-> TRUE, columns |-> Columns,
     rows |-> << <<"Rice", "200.0", "2.8", "28.0", "0.4">>,
                 <<"Apple", "52.0", "0.4", "14.0", "0.4">> >>]

\* a sequence without its k-th element
Without(seq, k) == [n \in 1..(Len(seq) - 1) |-> IF n < k THEN seq[n] ELSE seq[n + 1]]

\* the file without its k-th column
WithoutColumn(file, k) ==
    [file EXCEPT !.columns = Without(@, k), !.rows = [r \in 1..Len(@) |-> Without(@[r], k)]]

\* the file with another text in the cell of row r and column k
WithCell(file, r, k, cell) == [file EXCEPT !.rows[r][k] = cell]

\* an empty cell and a cell that spells no number
BadCells == {"", "abc"}

\* the files a matcher is constructed from: the well-formed file and each
\* defect of it: unreadable, a column dropped, a cell empty or not a number
Files ==
    {GoodFile, [GoodFile EXCEPT !.readable = FALSE]}
    \cup {WithoutColumn(GoodFile, k) : k \in 1..Len(Columns)}
    \cup {WithCell(GoodFile, r, k, cell) : r \in 1..Len(GoodFile.rows), k \in 1..Len(Columns), cell \in BadCells}

(***************************************************************************)
(* Reference tables and inputs                                             *)
(***************************************************************************)

\* a table row; the per-100g values are kept in tenths (2000 is 200.0)
Row(name, calories, protein, carbs, fat) ==
    [display_name |-> name, calories_per_100g |-> calories, protein_g |-> protein,
     carbs_g |-> carbs, fat_g |-> fat]

\* the rows the tables are drawn from.  Every value is a multiple of 0.4, so that
\* no product value * quantity * unit factor lies halfway between two tenths:
\* there Python rounds the binary double, not the decimal value (Round1).
FoodPool ==
    { Row("Rice", 2000, 28, 280, 4),
      Row("Brown Rice", 1112, 24, 232, 8),
      Row("Fried Rice", 1632, 40, 200, 72),
      Row("Apple", 520, 4, 140, 4),
      Row("Peanut Butter", 5880, 252, 200, 500) }

\* the rows of the tables the lookups are checked on: names with a word of
\* fewer than three characters, with a long second word, and one letter apart
LookupPool ==
    { Row("Rice", 2000, 28, 280, 4),
      Row("Brown Rice", 1112, 24, 232, 8),
      Row("Peanut Butter", 5880, 252, 200, 500),
      Row("Wild Blueberry", 228, 8, 144, 4),
      Row("Cherry", 252, 12, 160, 4),
      Row("Sherry", 464, 0, 8, 0),
      Row("Rice N Peas", 1440, 48, 240, 32) }

\* the largest number of rows of a table
MaxRows == 2

\* the tables: every sequence of 1..MaxRows distinct rows of the pool, in every order
Tables ==
    UNION { {t \in [1..n -> FoodPool] : \A i, j \in 1..n : i # j => t[i] # t[j]} : n \in 1..MaxRows }

\* the tables of the lookups
LookupTables ==
    UNION { {t \in [1..n -> LookupPool] : \A i, j \in 1..n : i # j => t[i] # t[j]} : n \in 1..MaxRows }

\* the foods, quantities and connectors the composed inputs are built from
FoodTexts == {"rice", "apple", "peanut butter", "quinoa"}
Numbers == {"2"}
Separators == {" with ", " and ", ", "}

\* inputs of the form "<n> A <separator> B"
ComposedTexts == {n \o " " \o a \o sep \o b : n \in Numbers, a \in FoodTexts, b \in FoodTexts, sep \in Separators}

\* inputs given as the list of their segments
SegmentLists ==
    { <<"peanut butter">>, <<"2 cups rice", "apple">>,
      <<"1 rice", "2 slices fried rice", "apple">> }

\* segments that name no food of the pool
NoFoodSegments == {"kale", "2 cups quinoa"}

RECURSIVE Join(_)
\* the segments written as one comma-separated text
Join(segs) ==
    IF Len(segs) = 0 THEN ""
    ELSE IF Len(segs) = 1 THEN segs[1]
    ELSE segs[1] \o ", " \o Join(Tail(segs))

\* the list with one more segment after its p-th segment (p = 0: in front)
InsertAt(segs, p, segment) == SubSeq(segs, 1, p) \o <<segment>> \o SubSeq(segs, p + 1, Len(segs))

\* the inputs with a segment that names no food inserted at each place
InsertedTexts ==
    {Join(InsertAt(segs, p, junk)) :
        <<segs, p, junk>> \in {x \in SegmentLists \X (0..3) \X NoFoodSegments : x[2] <= Len(x[1])}}

\* the texts given to extract_foods_with_quantities
Texts ==
    ComposedTexts \cup InsertedTexts \cup
    { "", "   ", "rice", "Rice, rice", "1 rice, 2 cups rice", "2 cups rice, apple, 1 rice",
      "1 cup rice", "0 rice", "00 cups apple", "1.5 cups rice", "rice 2 cups apple",
      "1 rice 2 cups quinoa",
      "quinoa with kale and tahini", "2 cups quinoa", "2 tbsps rice", "12 bowls  brown rice",
      "breakfast: 2 slices apple. lunch: fried rice", "3 tablespoons peanut butter and fried",
      "1 tbsp peanut butter", "2cups brown rice with aple", "apple, kale, 3 slice apple",
      "brown rice and 2 rice with 3 fried rice" }

\* the fragments given to find_food directly
Queries ==
    { "Rice", "rice", " RICE ", "Brown Rice", "brown rice", "Fried Rice", "fried rice",
      "Apple", "aple", "Peanut Butter", "peanut buter", "butter peanut", "PEANUT  butter",
      "rise", "ric", "brown", "bro", "peanut", "xyz", "quinoa", "with", "", "boiled rice",
      "rice pudding", "ice", "app", "peanuts butter", "fried", "of rice", "grape",
      "rice bro", "bro rice", "butter peanut spread",
      "blueberry ric", "ric blueberry", "penut buter rice", "berry", "rice---",
      "rice-fried--", "Wild Blueberry", "rice n peas", "peas", "cherry", "chery" }

\* the inputs a caller submits again after its first call
RepeatTexts == {"2 apple with rice", "   "}

\* the number of threads that call one shared matcher at the same time
MaxThreads == 2
Threads == 1..MaxThreads

\* the row of the pool with the given name
PoolRow(name) == CHOOSE row \in FoodPool : row.display_name = name

\* the tables of the matchers the threads share
SharedTables ==
    { <<PoolRow("Rice"), PoolRow("Apple")>>, <<PoolRow("Brown Rice"), PoolRow("Rice")>>,
      <<PoolRow("Peanut Butter")>> }

\* a mention, as lines 147-152 build it
Mention(food, quantity, unit, original_text) ==
    [food |-> food, quantity |-> quantity, unit |-> unit, original_text |-> original_text]

\* the arguments of the calls the threads make
CallQueries == {"brown rice"}
CallTexts == {"2 apple with rice"}
MentionLists ==
    { << >>,
      <<Mention("Rice", Frac(2, 1), "cup", "rice")>>,
      <<Mention("Apple", Frac(1, 1), "serving", "apple"), Mention("Quinoa", Frac(1, 1), "count", "quinoa"),
        Mention("Apple", Frac(3, 1), "slice", "apple")>> }

\* a thread that is in no call.  The fields of a thread are the arguments and
\* the local variables of the call it is in: op the method, n the index of the
\* loop, done whether the call has returned, overlapped whether a step of the
\* call was taken while another thread was inside a call
Idle ==
    [op |-> "idle", text |-> "", mentions |-> << >>, segments |-> << >>, n |-> 0,
     foods |-> << >>, out |-> << << >>, << >> >>, found |-> None, done |-> FALSE,
     overlapped |-> FALSE]

(***************************************************************************)
(* The application session (src/app.py)                                     *)
(***************************************************************************)

RECURSIVE SumOf(_, _, _)
\* sum(item[column] for item in nutrition_data), from record k on
SumOf(records, column, k) ==
    IF k > Len(records) THEN 0 ELSE records[k][column] + SumOf(records, column, k + 1)

\* calculate_totals
calculate_totals(records) ==
    [calories |-> SumOf(records, "calories", 1), protein |-> SumOf(records, "protein", 1),
     carbs |-> SumOf(records, "carbs", 1), fat |-> SumOf(records, "fat", 1)]

\* the messages of st.error
NoFoodsError == "No recognizable foods found."
NoRecordsError == "None of the foods could be found in our database."
BlankError == "Please enter some food items to analyze."

\* the session when the page is first opened: line 59 stores analyzed = False.
\* The keys nutrition_data, totals and unknown_foods are not stored yet, which
\* the empty list and the totals of the empty list stand for.  The other fields
\* are the value of the text area, the button pressed in the latest run of the
\* script, the error that run showed, whether it drew the results of lines
\* 175-291, and the input of the latest analysis that found a food (a history
\* of the session, not a key of the program)
NewSession ==
    [analyzed |-> FALSE, nutrition_data |-> << >>, totals |-> calculate_totals(<< >>),
     unknown_foods |-> << >>, user_input |-> "", button |-> None, error |-> None,
     results |-> FALSE, found_input |-> None]

\* the texts typed into the text area
AppTexts == {"", "   ", "kale", "rice", "2 cups rice", "2 apple with rice", "1 tbsp peanut butter"}

(***************************************************************************)
(* State: one matcher and the calls a caller makes on it                   *)
(***************************************************************************)

VARIABLES
    db,              \* self.db: the reference table
    search_index,    \* self.search_index
    exact_matches,   \* self.exact_matches
    pc,              \* the caller: "ready", "found", "extracted", "aggregated",
                     \* "raised" (the latest call raised) or "failed" (no matcher)
    query,           \* argument of the latest find_food call
    found,           \* its result
    text,            \* argument of the latest extract_foods_with_quantities call
    foods,           \* its result
    nutrition_data,  \* first result of the latest get_nutrition_data call
    unknown_foods,   \* second result of the latest get_nutrition_data call
    log,             \* the caller's record of the first outcome of each repeated text,
                     \* and whether the text has been run again since
    raised,          \* the exception the constructor or the latest call raised, or None
    source,          \* the file the matcher was constructed from; None for a matcher
                     \* whose table is given as parsed rows
    calls,           \* for each thread, the call it is in (Idle when in none)
    session          \* st.session_state of the application and the page its latest run drew

vars == <<db, search_index, exact_matches, pc, query, found, text, foods,
          nutrition_data, unknown_foods, log, raised, source, calls, session>>

matcher == <<db, search_index, exact_matches>>

\* the matcher object as the methods read it
Self == [db |-> db, search_index |-> search_index, exact_matches |-> exact_matches]

Init ==
    /\ \E table \in Tables :
          LET m == NewMatcher(table)
          IN  /\ db = m.db
              /\ search_index = m.search_index
              /\ exact_matches = m.exact_matches
    /\ pc = "ready"
    /\ query = None
    /\ found = None
    /\ text = None
    /\ foods = << >>
    /\ nutrition_data = << >>
    /\ unknown_foods = << >>
    /\ log = EmptyDict
    /\ raised = None
    /\ source = None
    /\ calls = [t \in Threads |-> Idle]
    /\ session = NewSession

\* the state after CleanFoodMatcher(path) on each of the files: a matcher, or
\* the exception the constructor raised and no matcher
LoadInit ==
    /\ \E file \in Files :
          /\ source = file
          /\ raised = InitError(file)
          /\ IF InitError(file) = None
             THEN LET m == NewMatcher(read_csv(file))
                  IN  /\ db = m.db
                      /\ search_index = m.search_index
                      /\ exact_matches = m.exact_matches
                      /\ pc = "ready"
             ELSE /\ db = << >>
                  /\ search_index = EmptyDict
                  /\ exact_matches = EmptyDict
                  /\ pc = "failed"
    /\ query = None
    /\ found = None
    /\ text = None
    /\ foods = << >>
    /\ nutrition_data = << >>
    /\ unknown_foods = << >>
    /\ log = EmptyDict
    /\ calls = [t \in Threads |-> Idle]
    /\ session = NewSession

\* the arguments a call may take: anything on the first call; later calls are
\* those of a caller that goes on submitting repeated texts
Allowed(arg, all) ==
    IF pc = "ready" THEN arg \in all ELSE text \in RepeatTexts /\ arg \in RepeatTexts

\* matcher.find_food(q)
FindFood(q) ==
    /\ pc \in {"ready", "found", "aggregated", "raised"}
    /\ Allowed(q, Queries)
    /\ query' = q
    /\ found' = find_food(Self, q)
    /\ pc' = IF pc = "ready" THEN "found" ELSE pc
    /\ raised' = None
    /\ UNCHANGED <<matcher, text, foods, nutrition_data, unknown_foods, log, source, calls, session>>

\* foods = matcher.extract_foods_with_quantities(t)
Extract(t) ==
    /\ pc \in {"ready", "found", "aggregated", "raised"}
    /\ Allowed(t, Texts)
    /\ text' = t
    /\ foods' = extract_foods_with_quantities(Self, t, foods)
    /\ pc' = "extracted"
    /\ query' = None
    /\ found' = None
    /\ nutrition_data' = << >>
    /\ unknown_foods' = << >>
    /\ raised' = None
    /\ UNCHANGED <<matcher, log, source, calls, session>>

\* nutrition_data, unknown_foods = matcher.get_nutrition_data(foods)
GetNutritionData ==
    /\ pc = "extracted"
    /\ raised' = NutritionError(Self, foods)
    /\ IF NutritionError(Self, foods) # None
       THEN /\ pc' = "raised"
            /\ UNCHANGED <<nutrition_data, unknown_foods, log>>
       ELSE LET out == get_nutrition_data(Self, foods)
            IN  /\ nutrition_data' = out[1]
                /\ unknown_foods' = out[2]
                /\ log' = IF text \notin RepeatTexts THEN log
                          ELSE IF text \notin DOMAIN log
                          THEN Put(log, text, [foods |-> foods, nutrition_data |-> out[1],
                                               unknown_foods |-> out[2], repeated |-> FALSE])
                          ELSE Put(log, text, [log[text] EXCEPT !.repeated = TRUE])
                /\ pc' = "aggregated"
    /\ UNCHANGED <<matcher, query, found, text, foods, source, calls, session>>

Next ==
    \/ \E q \in Queries \cup RepeatTexts : FindFood(q)
    \/ \E t \in Texts \cup RepeatTexts : Extract(t)
    \/ GetNutritionData

Spec == Init /\ [][Next]_vars

\* the same calls on the matchers constructed from the files
LoadSpec == LoadInit /\ [][Next]_vars

\* a caller that makes one find_food call on a matcher of the lookup tables
LookupInit ==
    /\ \E table \in LookupTables :
          LET m == NewMatcher(table)
          IN  /\ db = m.db
              /\ search_index = m.search_index
              /\ exact_matches = m.exact_matches
    /\ pc = "ready"
    /\ query = None
    /\ found = None
    /\ text = None
    /\ foods = << >>
    /\ nutrition_data = << >>
    /\ unknown_foods = << >>
    /\ log = EmptyDict
    /\ raised = None
    /\ source = None
    /\ calls = [t \in Threads |-> Idle]
    /\ session = NewSession

LookupNext == \E q \in Queries : FindFood(q)

LookupSpec == LookupInit /\ [][LookupNext]_vars

(***************************************************************************)
(* The application: one run of the script for each button pressed          *)
(***************************************************************************)

\* the session opened on the matcher of load_food_matcher (lines 18-20, 55-59)
AppInit == Init

\* lines 124-131: the records, the unknown texts and the totals of the mentions
Aggregated(self, mentions) ==
    LET out == get_nutrition_data(self, mentions)
    IN  [foods |-> mentions, nutrition_data |-> out[1], unknown_foods |-> out[2],
         totals |-> calculate_totals(out[1])]

\* lines 118-131: the analysis of the text t
Analysis(self, t) == Aggregated(self, extract_foods_with_quantities(self, t, << >>))

\* lines 113-172 and 175-294: the session after the run of the script in which
\* Analyze was pressed with t in the text area, run being the analysis of t.
\* The calls of lines 134-153 read the records and the totals and store nothing;
\* they are taken to return
AfterAnalyze(s, t, run) ==
    LET typed == [s EXCEPT !.user_input = t, !.button = "analyze"]
    IN  IF Strip(t) = ""
        THEN \* line 113 is false; lines 175 and 293 choose what is drawn
             [typed EXCEPT !.results = s.analyzed,
                           !.error = IF s.analyzed THEN None ELSE BlankError]
        ELSE IF run.foods = << >>
        THEN [typed EXCEPT !.results = FALSE, !.error = NoFoodsError]
        ELSE IF run.nutrition_data = << >>
        THEN [typed EXCEPT !.results = FALSE, !.error = NoRecordsError, !.found_input = t]
        ELSE [typed EXCEPT !.analyzed = TRUE, !.nutrition_data = run.nutrition_data,
                           !.totals = run.totals, !.unknown_foods = run.unknown_foods,
                           !.results = TRUE, !.error = None, !.found_input = t]

\* Analyze is pressed with t in the text area
Analyze(t) ==
    /\ pc = "ready"
    /\ session' = AfterAnalyze(session, t, Analysis(Self, t))
    /\ UNCHANGED <<matcher, pc, query, found, text, foods, nutrition_data, unknown_foods,
                   log, raised, source, calls>>

\* lines 105-110: the run after Clear was pressed, and the run st.rerun() starts,
\* which draws neither results nor error
Clear ==
    /\ pc = "ready"
    /\ session' = [session EXCEPT !.analyzed = FALSE, !.user_input = "", !.button = "clear",
                                  !.results = FALSE, !.error = None]
    /\ UNCHANGED <<matcher, pc, query, found, text, foods, nutrition_data, unknown_foods,
                   log, raised, source, calls>>

AppNext ==
    \/ \E t \in AppTexts : Analyze(t)
    \/ Clear

AppSpec == AppInit /\ [][AppNext]_vars

(***************************************************************************)
(* Threads calling one shared matcher without a lock                       *)
(***************************************************************************)

\* the variables of the single caller and of the application, which the threads
\* leave alone
caller == <<pc, query, found, text, foods, nutrition_data, unknown_foods, log, raised, source, session>>

ThreadInit ==
    /\ \E table \in SharedTables :
          LET m == NewMatcher(table)
          IN  /\ db = m.db
              /\ search_index = m.search_index
              /\ exact_matches = m.exact_matches
    /\ pc = "ready"
    /\ query = None
    /\ found = None
    /\ text = None
    /\ foods = << >>
    /\ nutrition_data = << >>
    /\ unknown_foods = << >>
    /\ log = EmptyDict
    /\ raised = None
    /\ source = None
    /\ calls = [t \in Threads |-> Idle]
    /\ session = NewSession

\* another thread is inside a call
OthersRunning(t) == \E u \in Threads : u # t /\ calls[u].op # "idle" /\ ~calls[u].done

\* the full-name index with the result of a lookup stored under the query
IndexWithLookup(self, query_, food_name) == Put(self.search_index, Normalize(query_), food_name)

\* lines 32-98: the full-name index after a find_food call: the method assigns
\* to no attribute of self
IndexAfterLookup(self, query_, food_name) == self.search_index

\* thread t enters find_food(q)
CallFindFood(t, q) ==
    /\ calls[t].op = "idle"
    /\ calls' = [calls EXCEPT ![t] = [Idle EXCEPT !.op = "find_food", !.text = q]]
    /\ UNCHANGED <<matcher, caller>>

\* lines 34-98: thread t runs find_food and returns
FindFoodStep(t) ==
    /\ calls[t].op = "find_food"
    /\ ~calls[t].done
    /\ LET food_name == find_food(Self, calls[t].text)
       IN  /\ calls' = [calls EXCEPT ![t].found = food_name, ![t].done = TRUE,
                                      ![t].overlapped = @ \/ OthersRunning(t)]
           /\ search_index' = IndexAfterLookup(Self, calls[t].text, food_name)
    /\ UNCHANGED <<db, exact_matches, caller>>

\* lines 102-110: thread t enters extract_foods_with_quantities(txt) and splits
\* the text into its local list of segments
CallExtract(t, txt) ==
    /\ calls[t].op = "idle"
    /\ calls' = [calls EXCEPT ![t] = [Idle EXCEPT !.op = "extract", !.text = txt,
                                                  !.segments = Segments(txt), !.n = 1,
                                                  !.foods = FreshFoods(<< >>)]]
    /\ UNCHANGED <<matcher, caller>>

\* lines 112-174: thread t runs one iteration of the loop over its segments, and
\* returns after the last one
ExtractStep(t) ==
    /\ calls[t].op = "extract"
    /\ ~calls[t].done
    /\ calls' = [calls EXCEPT ![t].foods = SegmentStep(Self, calls[t].segments[calls[t].n], @),
                              ![t].n = @ + 1,
                              ![t].done = (calls[t].n + 1 > Len(calls[t].segments)),
                              ![t].overlapped = @ \/ OthersRunning(t)]
    /\ UNCHANGED <<matcher, caller>>

\* lines 178-179: thread t enters get_nutrition_data(mentions); with no mention
\* the loop has nothing to do and the call returns
CallGetNutritionData(t, mentions) ==
    /\ calls[t].op = "idle"
    /\ calls' = [calls EXCEPT ![t] = [Idle EXCEPT !.op = "get_nutrition_data", !.mentions = mentions,
                                                  !.n = 1, !.done = (Len(mentions) = 0)]]
    /\ UNCHANGED <<matcher, caller>>

\* lines 181-216: thread t runs one iteration of the loop over its mentions, and
\* returns after the last one
GetNutritionDataStep(t) ==
    /\ calls[t].op = "get_nutrition_data"
    /\ ~calls[t].done
    /\ calls' = [calls EXCEPT ![t].out = NutritionStep(Self, calls[t].mentions[calls[t].n], @),
                              ![t].n = @ + 1,
                              ![t].done = (calls[t].n + 1 > Len(calls[t].mentions)),
                              ![t].overlapped = @ \/ OthersRunning(t)]
    /\ UNCHANGED <<matcher, caller>>

\* the caller of thread t has taken the result; the thread is free for a new call
Take(t) ==
    /\ calls[t].done
    /\ calls' = [calls EXCEPT ![t] = Idle]
    /\ UNCHANGED <<matcher, caller>>

ThreadNext ==
    \E t \in Threads :
        \/ \E q \in CallQueries : CallFindFood(t, q)
        \/ FindFoodStep(t)
        \/ \E txt \in CallTexts : CallExtract(t, txt)
        \/ ExtractStep(t)
        \/ \E mentions \in MentionLists : CallGetNutritionData(t, mentions)
        \/ GetNutritionDataStep(t)
        \/ Take(t)

ThreadSpec == ThreadInit /\ [][ThreadNext]_vars

(***************************************************************************)
(* Properties                                                              *)
(***************************************************************************)

InTable(name) == \E i \in 1..Len(db) : db[i].display_name = name

\* C1: every mention returned by extract_foods_with_quantities has as food the
\* display_name of some row of the table, character for character, and so has
\* every result of find_food other than None
C1_FoodsAreTableNames ==
    /\ \A k \in 1..Len(foods) : InTable(foods[k].food)
    /\ found # None => InTable(found)

\* a call of each kind has returned names: two mentions and a find_food result
C1_Witness ==
    /\ Len(foods) >= 2
    /\ found # None
    /\ \E k \in 1..Len(foods) : foods[k].food # Lower(foods[k].food)

\* the segments of a text that the loop of line 112 does not skip
KeptSegments(t) ==
    SelectSeq([n \in 1..Len(Segments(t)) |-> Strip(Segments(t)[n])], LAMBDA seg : Len(seg) >= 3)

\* the mentions one segment yields when it is the only segment of the input
SegmentMentions(self, segment) ==
    LET tried == PatternLoop(self, segment, 1, << >>)
    IN  IF tried[1] THEN tried[2] ELSE WholeSegment(self, segment, << >>)

\* C2: every segment of 3 or more characters for which no food is resolved is
\* returned in the unknown list once get_nutrition_data has run on the mentions
\* of the input; when no segment resolves, the record list is empty too
C2_UnresolvedSegmentsReturned ==
    pc = "aggregated" =>
        LET segs == KeptSegments(text)
            lost == {n \in 1..Len(segs) : SegmentMentions(Self, segs[n]) = << >>}
        IN  /\ \A n \in lost : \E k \in 1..Len(unknown_foods) : unknown_foods[k] = segs[n]
            /\ Cardinality(lost) = Len(segs) => nutrition_data = << >>

RECURSIVE Flatten(_, _)
\* the concatenation of the sequences seqs[n], seqs[n+1], ...
Flatten(seqs, n) == IF n > Len(seqs) THEN << >> ELSE seqs[n] \o Flatten(seqs, n + 1)

\* the mention of every segment of the text that resolves, in input order
ResolvedMentions(self, t) ==
    LET segs == KeptSegments(t)
    IN  Flatten([n \in 1..Len(segs) |-> SegmentMentions(self, segs[n])], 1)

\* the entries of a list of mentions that no earlier entry names the food of
FirstOccurrences(mentions) ==
    LET first == {k \in 1..Len(mentions) : \A j \in 1..(k - 1) : mentions[j].food # mentions[k].food}
        nth(n) == CHOOSE k \in first : Cardinality({j \in first : j < k}) = n - 1
    IN  [n \in 1..Cardinality(first) |-> mentions[nth(n)]]

\* C3: the returned list holds at most one mention per food, namely the mention
\* of the first segment that resolves to it (its quantity and unit, nothing
\* summed), in the order of first occurrence; get_nutrition_data then returns
\* exactly one record for each such food
C3_FirstMentionPerFood ==
    pc \in {"extracted", "aggregated"} =>
        /\ \A j, k \in 1..Len(foods) : j # k => foods[j].food # foods[k].food
        /\ foods = FirstOccurrences(ResolvedMentions(Self, text))
        /\ pc = "aggregated" =>
              \A k \in 1..Len(foods) :
                  Cardinality({j \in 1..Len(nutrition_data) : nutrition_data[j].food = foods[k].food}) = 1

\* two segments resolved to one food with different quantities and units, and
\* the first one survived next to a mention of another food
C3_Witness ==
    /\ pc = "aggregated"
    /\ LET all == ResolvedMentions(Self, text)
       IN  /\ Len(foods) >= 2
           /\ \E j, k \in 1..Len(all) :
                 /\ j < k
                 /\ all[j].food = all[k].food
                 /\ all[j].quantity # all[k].quantity
                 /\ all[j].unit # all[k].unit
                 /\ \E m \in 1..Len(foods) : foods[m] = all[j]

\* C4: every mention returned by extract_foods_with_quantities has a quantity
\* greater than zero
C4_QuantitiesPositive ==
    \A k \in 1..Len(foods) : foods[k].quantity[1] > 0

\* C5: find_food applied to the display name of a row, in any letter case and
\* with surrounding whitespace, returns a name equal to it up to letter case
C5_FullNameWins ==
    pc = "found" /\ (\E i \in 1..Len(db) : Lower(Strip(query)) = Lower(db[i].display_name))
        => Lower(found) = Lower(Strip(query))

\* every canonical name has a similarity ratio below 0.7 to the normalized fragment
AllRatiosBelowThreshold(self, fragment) ==
    \A i \in 1..Len(self.db) :
        FracLT(ratio(Normalize(fragment), Lower(self.db[i].display_name)), Threshold)

\* C6 as stated: a fragment whose ratio is below 0.7 against every canonical
\* name gets no match
C6_LowRatioGivesNone ==
    pc = "found" /\ AllRatiosBelowThreshold(Self, query) => found = None

\* a tier before the fuzzy one has a candidate for the fragment
EarlierTierCandidate(self, fragment) ==
    LET q == Normalize(fragment)
    IN  \/ SearchIndexHit(self, q)
        \/ ExactMatchesHit(self, q)
        \/ EqualRows(self, q) # {}
        \/ PhraseRows(self, q) # {}
        \/ ScoreLoop(self, Split(q), 1, 1, NoCandidate)[1] # None

\* C6 amended: a fragment whose ratio is below 0.7 against every canonical name
\* gets no match, unless the word index, the phrase tier or the scored-substring
\* tier has a candidate for it
C6_LowRatioGivesNoneUnlessEarlierTier ==
    pc = "found" /\ AllRatiosBelowThreshold(Self, query) /\ ~EarlierTierCandidate(Self, query)
        => found = None

\* a fragment reached the fuzzy tier with a ratio of 0.6 to some name and 0.7 to
\* none, and got no match
C6_Witness ==
    /\ pc = "found"
    /\ found = None
    /\ AllRatiosBelowThreshold(Self, query)
    /\ ~EarlierTierCandidate(Self, query)
    /\ \E i \in 1..Len(db) : FracGE(ratio(Normalize(query), Lower(db[i].display_name)), <<6, 10>>)

\* the unit factors as the claim lists them
ClaimedFactor(unit) ==
    CASE unit = "cup" -> <<15, 10>>
      [] unit = "slice" -> <<3, 10>>
      [] unit = "bowl" -> <<20, 10>>
      [] unit = "tbsp" -> <<15, 100>>
      [] unit = "serving" -> <<10, 10>>
      [] unit = "count" -> <<10, 10>>

\* tenths is the number of tenths nearest to value * q * f, the value in tenths
IsProductRounded(tenths, value, q, f) ==
    LET n == value * q[1] * f[1]
        d == q[2] * f[2]
        gap == IF n >= tenths * d THEN n - tenths * d ELSE tenths * d - n
    IN  2 * gap <= d

\* C7: for every mention whose food is in the table, get_nutrition_data returns
\* calories, protein, carbs and fat equal to the row's per-100g value times the
\* quantity times the unit factor, rounded to one decimal; a food of 200
\* calories per 100g entered as "1 cup <food>" gets 300.0 calories
C7_NutrientsScaled ==
    pc = "aggregated" =>
        /\ \A k \in 1..Len(foods) :
              InTable(foods[k].food) =>
                  \E j \in 1..Len(nutrition_data), i \in 1..Len(db) :
                      LET r == nutrition_data[j]
                          q == foods[k].quantity
                          f == ClaimedFactor(foods[k].unit)
                      IN  /\ r.food = foods[k].food
                          /\ db[i].display_name = foods[k].food
                          /\ IsProductRounded(r.calories, db[i].calories_per_100g, q, f)
                          /\ IsProductRounded(r.protein, db[i].protein_g, q, f)
                          /\ IsProductRounded(r.carbs, db[i].carbs_g, q, f)
                          /\ IsProductRounded(r.fat, db[i].fat_g, q, f)
        /\ text = "1 cup rice" /\ InTable("Rice") =>
              /\ Len(nutrition_data) = 1
              /\ nutrition_data[1].food = "Rice"
              /\ nutrition_data[1].calories = 3000

\* "1 cup rice" against a table whose Rice has 200 calories gave 300.0 calories
C7_Witness ==
    /\ pc = "aggregated"
    /\ text = "1 cup rice"
    /\ \E i \in 1..Len(db) : db[i].display_name = "Rice" /\ db[i].calories_per_100g = 2000
    /\ Len(nutrition_data) = 1
    /\ nutrition_data[1].calories = 3000
    /\ nutrition_data[1].protein = 42

SingleWord(i) == Len(Split(Lower(db[i].display_name))) = 1

\* C9: a word longer than 2 characters that is the lowercased name of a
\* single-word food is mapped by the word index to that food, wherever the
\* multi-word foods containing the word stand in the table
C9_SingleWordFoodHoldsSlot ==
    \A i \in 1..Len(db) :
        LET w == Strip(Lower(db[i].display_name))
        IN  SingleWord(i) /\ Len(w) > 2 =>
                /\ w \in DOMAIN exact_matches
                /\ exact_matches[w] = db[i].display_name

\* a multi-word food containing the word stands before the single-word food in
\* the table, and the word is mapped to the single-word food
C9_Witness ==
    \E i, j \in 1..Len(db) :
        LET w == Strip(Lower(db[j].display_name))
        IN  /\ i < j
            /\ SingleWord(j)
            /\ ~SingleWord(i)
            /\ \E n \in 1..Len(Split(Lower(db[i].display_name))) : Split(Lower(db[i].display_name))[n] = w
            /\ exact_matches[w] = db[j].display_name

\* C10: no call changes the table, the full-name index or the word index, and a
\* text run again through extract_foods_with_quantities and get_nutrition_data
\* gives the mentions, records and unknown list of its first run, whatever
\* calls came in between
C10_RepeatableRuns ==
    [][ /\ matcher' = matcher
        /\ pc' = "aggregated" /\ text' \in DOMAIN log' =>
              /\ log'[text'].foods = foods'
              /\ log'[text'].nutrition_data = nutrition_data'
              /\ log'[text'].unknown_foods = unknown_foods' ]_vars

\* a text has been run again, after another text was run and a name looked up
C10_Witness ==
    /\ pc = "aggregated"
    /\ text \in DOMAIN log
    /\ log[text].repeated
    /\ log[text].foods = foods
    /\ Len(foods) >= 2
    /\ \E other \in DOMAIN log : other # text /\ log[other].foods # foods
    /\ found # None

\* C11: once the matcher is constructed, no call of find_food,
\* extract_foods_with_quantities or get_nutrition_data raises an error: every
\* defect of the file is raised by the constructor
C11_OnlyConstructionRaises ==
    pc # "failed" => raised = None

\* the file is readable, has every column and a name in every row, and row r has
\* in nutrient column c a cell that is empty or spells no number
BadNutrient(file, r, c) ==
    /\ file.readable
    /\ Len(file.columns) = Len(Columns)
    /\ \A n \in 1..Len(file.rows) : file.rows[n][ColumnAt(file, "display_name")] # ""
    /\ c \in {NutrientColumns[k] : k \in 1..Len(NutrientColumns)}
    /\ ~IsNumber(file.rows[r][ColumnAt(file, c)])

\* the field of a record that holds the value of a nutrient column
RecordValue(record, c) ==
    CASE c = "calories_per_100g" -> record.calories
      [] c = "protein_g" -> record.protein
      [] c = "carbs_g" -> record.carbs
      [] c = "fat_g" -> record.fat

\* C12: a row with an empty or non-numeric nutrient cell does not make the
\* construction fail, and every record computed for the food of that row has
\* 0.0 for that nutrient
C12_BadNutrientCountsAsZero ==
    \A r \in 1..Len(source.rows), c \in {NutrientColumns[k] : k \in 1..Len(NutrientColumns)} :
        BadNutrient(source, r, c) =>
            /\ pc # "failed"
            /\ pc \in {"aggregated", "raised"} =>
                  \A k \in 1..Len(foods) :
                      foods[k].food = source.rows[r][ColumnAt(source, "display_name")] =>
                          /\ raised = None
                          /\ \E j \in 1..Len(nutrition_data) :
                                /\ nutrition_data[j].food = foods[k].food
                                /\ RecordValue(nutrition_data[j], c) = 0

\* C13: a comma-separated segment that resolves to no food, inserted at any
\* place of an input, raises nothing and leaves the mentions of the other
\* segments (foods, quantities, units, order) as they are without it
C13_FailureIsLocal ==
    \A segs \in SegmentLists, junk \in NoFoodSegments, p \in 0..3 :
        (/\ p <= Len(segs)
         /\ pc \in {"extracted", "aggregated"}
         /\ text = Join(InsertAt(segs, p, junk))
         /\ SegmentMentions(Self, junk) = << >>)
        => /\ raised = None
           /\ foods = extract_foods_with_quantities(Self, Join(segs), << >>)

\* "2 cups rice, kale, apple" gave the two mentions of "2 cups rice, apple"
C13_Witness ==
    /\ pc = "extracted"
    /\ text = "2 cups rice, kale, apple"
    /\ SegmentMentions(Self, "kale") = << >>
    /\ Len(foods) = 2
    /\ foods[1].food = "Rice" /\ foods[1].unit = "cup"
    /\ foods[2].food = "Apple" /\ foods[2].unit = "serving"

\* C14: for an empty or whitespace-only text extract_foods_with_quantities
\* returns the empty list, and get_nutrition_data on it returns an empty
\* record list and an empty unknown list; neither raises
C14_EmptyInputGivesNothing ==
    pc \in {"extracted", "aggregated", "raised"} /\ Strip(text) = ""
        => /\ foods = << >>
           /\ raised = None
           /\ pc # "raised"
           /\ pc = "aggregated" => nutrition_data = << >> /\ unknown_foods = << >>

\* a whitespace-only text went through both calls after a text that had given
\* mentions
C14_Witness ==
    /\ pc = "aggregated"
    /\ text = "   "
    /\ foods = << >>
    /\ nutrition_data = << >>
    /\ \E t \in DOMAIN log : log[t].foods # << >>

\* what a call returns when it runs alone on the matcher
Alone(self, call) ==
    CASE call.op = "find_food" -> find_food(self, call.text)
      [] call.op = "extract" -> extract_foods_with_quantities(self, call.text, << >>)
      [] call.op = "get_nutrition_data" -> get_nutrition_data(self, call.mentions)

\* what a call has returned
Returned(call) ==
    CASE call.op = "find_food" -> call.found
      [] call.op = "extract" -> call.foods
      [] call.op = "get_nutrition_data" -> call.out

\* C15: with find_food, extract_foods_with_quantities and get_nutrition_data
\* calls running at the same time on one shared matcher, under every
\* interleaving of their steps no step writes the table, the full-name index or
\* the word index, and each call returns what it returns when run alone
C15_ConcurrentCallsAsAlone ==
    [][ /\ matcher' = matcher
        /\ \A t \in Threads : calls'[t].done => Returned(calls'[t]) = Alone(Self, calls'[t]) ]_vars

\* an extraction returned two mentions after steps taken while another thread
\* was in the middle of a get_nutrition_data call that has itself overlapped
C15_Witness ==
    \E t, u \in Threads :
        /\ t # u
        /\ calls[t].op = "extract" /\ calls[t].done /\ calls[t].overlapped
        /\ Len(calls[t].foods) = 2
        /\ calls[u].op = "get_nutrition_data" /\ ~calls[u].done /\ calls[u].overlapped
        /\ calls[u].n > 1

\* C16: of the mentions given to get_nutrition_data each one gives exactly one
\* output, in the order of the mentions: a record when its food is the
\* display_name of a row, else its original text in the unknown list; the two
\* lists together are as long as the list of mentions, and the food of every
\* record is in the table
C16_OneOutputPerMention ==
    \A t \in Threads :
        calls[t].op = "get_nutrition_data" /\ calls[t].done =>
            LET mentions == calls[t].mentions
                records  == calls[t].out[1]
                unknown  == calls[t].out[2]
                known    == SelectSeq(mentions, LAMBDA mention : InTable(mention.food))
                absent   == SelectSeq(mentions, LAMBDA mention : ~InTable(mention.food))
            IN  /\ Len(records) + Len(unknown) = Len(mentions)
                /\ Len(records) = Len(known)
                /\ \A j \in 1..Len(known) :
                      /\ records[j].food = known[j].food
                      /\ records[j].quantity = <<known[j].quantity, known[j].unit>>
                      /\ InTable(records[j].food)
                /\ unknown = [j \in 1..Len(absent) |-> absent[j].original_text]

\* a call given three mentions, two of a food of the table and between them one
\* of a food the table does not have, returned two records and one unknown text
C16_Witness ==
    \E t \in Threads :
        /\ calls[t].op = "get_nutrition_data"
        /\ calls[t].done
        /\ Len(calls[t].mentions) = 3
        /\ Len(calls[t].out[1]) = 2
        /\ calls[t].out[1][1].food = calls[t].out[1][2].food
        /\ calls[t].out[2] = <<"quinoa">>

\* the units of the closed set
Units == {"cup", "slice", "bowl", "tbsp", "count", "serving"}

\* C17: every mention returned by extract_foods_with_quantities has as unit one
\* of cup, slice, bowl, tbsp, count, serving
C17_UnitsInClosedSet ==
    \A k \in 1..Len(foods) : foods[k].unit \in Units

\* a quantity written with "tablespoons" gave a mention whose unit is tbsp
C17_Witness ==
    /\ pc = "extracted"
    /\ text = "3 tablespoons peanut butter and fried"
    /\ Len(foods) = 1
    /\ foods[1].food = "Peanut Butter"
    /\ foods[1].unit = "tbsp"

\* the priority order of the patterns as the claim gives it
ClaimedOrder == <<"cup", "slice", "bowl", "tbsp", "count">>

\* the mention a pattern gives for a segment: its number, its unit and the food
\* its trailing text resolves to
PatternMention(self, segment, unit) ==
    LET match == Search(segment, unit)
    IN  [food |-> find_food(self, match[3]), quantity |-> Float(match[2]), unit |-> unit,
         original_text |-> Strip(match[3])]

\* the mentions of the input when those of each segment are given by of(segment)
MentionsBy(of(_), t) ==
    LET segs == KeptSegments(t)
    IN  FirstOccurrences(Flatten([n \in 1..Len(segs) |-> of(segs[n])], 1))

\* C18 as stated: the mention of a segment
FirstMatchingPattern(self, segment) ==
    LET matching == {n \in 1..Len(ClaimedOrder) : Search(segment, ClaimedOrder[n])[1]}
        mention  == PatternMention(self, segment, ClaimedOrder[Min(matching)])
    IN  IF matching = {} THEN WholeSegment(self, segment, << >>)
        ELSE IF Truthy(mention.food) THEN <<mention>>
        ELSE << >>

FirstResolvingPattern(self, segment) ==
    LET resolving == {n \in 1..Len(ClaimedOrder) :
                        /\ Search(segment, ClaimedOrder[n])[1]
                        /\ Truthy(PatternMention(self, segment, ClaimedOrder[n]).food)}
    IN  IF resolving = {} THEN WholeSegment(self, segment, << >>)
        ELSE <<PatternMention(self, segment, ClaimedOrder[Min(resolving)])>>

HasEveryWord(i, q) ==
    \A w \in 1..Len(Split(q)) : Contains(Lower(db[i].display_name), Split(q)[w])
HasPhrase(i, q) == Contains(Lower(db[i].display_name), q)

\* C19: for a normalized fragment of two or more words that misses the exact
\* tiers, when some name contains every word of it find_food returns a name
\* that does, and when some name contains the whole fragment it returns a name
\* that does
C19_EveryWordCandidateReturned ==
    LET q == Normalize(query)
    IN  (/\ pc = "found"
         /\ Len(Split(q)) >= 2
         /\ ~SearchIndexHit(Self, q) /\ ~ExactMatchesHit(Self, q) /\ EqualRows(Self, q) = {})
        => /\ (\E i \in 1..Len(db) : HasEveryWord(i, q))
                => \E i \in 1..Len(db) : HasEveryWord(i, q) /\ found = db[i].display_name
           /\ (\E i \in 1..Len(db) : HasPhrase(i, q))
                => \E i \in 1..Len(db) : HasPhrase(i, q) /\ found = db[i].display_name

\* C20: a quantity pattern counts only at the start of a segment: a segment that
\* starts with food text and has a number later on is resolved as a whole, its
\* leading text taking part in the resolution and the number giving no quantity
C20_OnlyLeadingPatterns ==
    pc = "extracted" =>
        foods = MentionsBy(LAMBDA segment : IF IsDigit(Ch(segment, 1))
                                            THEN SegmentMentions(Self, segment)
                                            ELSE WholeSegment(Self, segment, << >>), text)

(***************************************************************************)
(* C21: find_food and the normalization of its argument                    *)
(***************************************************************************)

UpperOf == [c \in CharsOf(LowerLetters) |->
              Ch(UpperLetters, CHOOSE i \in 1..Len(LowerLetters) : Ch(LowerLetters, i) = c)]

RECURSIVE UpperFrom(_, _)
UpperFrom(s, i) ==
    IF i > Len(s) THEN ""
    ELSE (IF Ch(s, i) \in DOMAIN UpperOf THEN UpperOf[Ch(s, i)] ELSE Ch(s, i)) \o UpperFrom(s, i + 1)

\* str.upper on ASCII text
Upper(s) == UpperFrom(s, 1)

RECURSIVE JoinWith(_, _)
\* sep.join(tokens)
JoinWith(tokens, sep) ==
    IF Len(tokens) = 0 THEN ""
    ELSE IF Len(tokens) = 1 THEN tokens[1]
    ELSE tokens[1] \o sep \o JoinWith(Tail(tokens), sep)

\* the modifier words the variants are built with
InsertedModifiers == {"fried", "of"}

\* the text in another case, with whitespace around it, with its whitespace doubled
Respaced(q) == {Upper(q), "  " \o q \o " ", JoinWith(Split(q), "  ")}

\* the text with a modifier word put in front of, between or behind its
\* whitespace-separated words
SpacedModifierVariants(q) ==
    {JoinWith(InsertAt(Split(q), k, m), " ") : k \in 0..Len(Split(q)), m \in InsertedModifiers}

\* the text with a modifier word put at a place where it stands as a whole word
\* (no letter, digit or underscore next to it), whatever stands next to it
WholeWordVariants(q) ==
    {SubSeq(q, 1, p) \o m \o From(q, p + 1) :
        <<p, m>> \in {x \in (0..Len(q)) \X InsertedModifiers :
                        /\ x[1] = 0 \/ ~IsWordChar(Ch(q, x[1]))
                        /\ x[1] = Len(q) \/ ~IsWordChar(Ch(q, x[1] + 1))}}

\* C21 as stated: the result of find_food is the same for the text in another
\* case, with leading, trailing or repeated whitespace, and with a modifier word
\* inserted as a whole word
C21_InvariantUnderWholeWordModifiers ==
    pc = "found" =>
        \A v \in Respaced(query) \cup SpacedModifierVariants(query) \cup WholeWordVariants(query) :
            find_food(Self, v) = found

\* C21 amended: the result of find_food is the same for the text in another
\* case, with leading, trailing or repeated whitespace, and with a modifier word
\* inserted as a word of its own, separated by whitespace from its neighbours
C21_InvariantUnderSpacedModifiers ==
    pc = "found" =>
        \A v \in Respaced(query) \cup SpacedModifierVariants(query) : find_food(Self, v) = found

\* "brown rice" was looked up and found, on a table that also has Rice: "BROWN
\* RICE" and "brown fried rice" are among its variants
C21_Witness ==
    /\ pc = "found"
    /\ query = "brown rice"
    /\ found = "Brown Rice"
    /\ InTable("Rice")
    /\ "brown fried rice" \in SpacedModifierVariants(query)
    /\ "BROWN RICE" \in Respaced(query)

(***************************************************************************)
(* C22: the scored tier                                                    *)
(***************************************************************************)

\* the first three tiers miss the normalized fragment q
EarlierTiersMiss(self, q) ==
    /\ ~SearchIndexHit(self, q)
    /\ ~ExactMatchesHit(self, q)
    /\ EqualRows(self, q) = {}
    /\ PhraseRows(self, q) = {}

\* the pairs <<w, i>> of a word of more than two characters and a row whose
\* lowercased name contains it
ScoredPairs(self, q) ==
    {x \in (1..Len(Split(q))) \X (1..Len(self.db)) :
        /\ Len(Split(q)[x[1]]) > 2
        /\ Contains(Lower(self.db[x[2]].display_name), Split(q)[x[1]])}

\* the score of a pair as the claim gives it, in hundredths: 0.5, plus 0.3 if the
\* name starts with the word, plus 0.05 for each character of the word, minus 0.2
\* if the name has several words and the fragment one
ClaimedScore(self, q, x) ==
    LET word == Split(q)[x[1]]
        name == self.db[x[2]].display_name
    IN  ExactScore(IF StartsWith(Lower(name), word) THEN 1 ELSE 0,
                   IF Len(Split(name)) > 1 /\ Len(Split(q)) = 1 THEN 1 ELSE 0,
                   Len(word))[1]

\* x comes before y in fragment-word order, then table order
PairBefore(x, y) == x[1] < y[1] \/ (x[1] = y[1] /\ x[2] < y[2])

\* the pair the claim says is kept: of maximal score, and the first of those
ClaimedPair(self, q) ==
    CHOOSE x \in ScoredPairs(self, q) :
        \A y \in ScoredPairs(self, q) \ {x} :
            \/ ClaimedScore(self, q, x) > ClaimedScore(self, q, y)
            \/ ClaimedScore(self, q, x) = ClaimedScore(self, q, y) /\ PairBefore(x, y)

\* C22: when the exact, word-index and phrase tiers miss, the scored tier keeps
\* the name of a pair of maximal score, the first in fragment-word order and then
\* table order among pairs of equal score, and find_food returns it whenever its
\* score is 0.7 or more or no name reaches ratio 0.7
C22_FirstBestScoredPairReturned ==
    LET q == Normalize(query)
    IN  (/\ pc = "found"
         /\ EarlierTiersMiss(Self, q)
         /\ ScoredPairs(Self, q) # {})
        => LET x == ClaimedPair(Self, q)
           IN  (ClaimedScore(Self, q, x) >= 70 \/ AllRatiosBelowThreshold(Self, q))
                   => found = db[x[2]].display_name

(***************************************************************************)
(* C23: the fuzzy tier runs only below the threshold                       *)
(***************************************************************************)

\* the highest score of a pair, in hundredths
BestClaimedScore(self, q) == Max({ClaimedScore(self, q, x) : x \in ScoredPairs(self, q)})

\* the names of the pairs of highest score
BestScoredNames(self, q) ==
    {self.db[x[2]].display_name :
        x \in {y \in ScoredPairs(self, q) : ClaimedScore(self, q, y) = BestClaimedScore(self, q)}}

\* C23: when the earlier tiers miss and the best score of the scored tier is 0.7
\* or more, find_food returns a name of that score; the similarity ratios are
\* consulted only when the best score is below 0.7
C23_ScoredCandidateStands ==
    LET q == Normalize(query)
    IN  (/\ pc = "found"
         /\ EarlierTiersMiss(Self, q)
         /\ ScoredPairs(Self, q) # {}
         /\ BestClaimedScore(Self, q) >= 70)
        => found \in BestScoredNames(Self, q)

\* "penut buter rice" got Brown Rice from the scored tier with score 0.7, though
\* its ratio to Peanut Butter is higher than that score and than its ratio to
\* Brown Rice
C23_Witness ==
    /\ pc = "found"
    /\ query = "penut buter rice"
    /\ found = "Brown Rice"
    /\ BestClaimedScore(Self, query) = 70
    /\ InTable("Peanut Butter")
    /\ FracGT(ratio(query, "peanut butter"), Threshold)
    /\ FracGT(ratio(query, "peanut butter"), ratio(query, "brown rice"))

(***************************************************************************)
(* C28: the fuzzy tier                                                     *)
(***************************************************************************)

\* the ratio of the fragment to the name of row i
RowRatio(self, q, i) == ratio(q, Lower(self.db[i].display_name))

\* the row of highest ratio, the first in table order among rows of equal ratio
BestRatioRow(self, q) ==
    CHOOSE i \in 1..Len(self.db) :
        \A j \in 1..Len(self.db) \ {i} :
            \/ FracGT(RowRatio(self, q, i), RowRatio(self, q, j))
            \/ ~FracGT(RowRatio(self, q, j), RowRatio(self, q, i)) /\ i < j

\* C28: when the earlier tiers miss, the best score of the scored tier is below
\* 0.7 and some name has a ratio of 0.7 or more, find_food returns the name of
\* highest ratio, the first in table order among names of equal ratio, whatever
\* candidate the scored tier had
C28_HighestRatioReturned ==
    LET q == Normalize(query)
    IN  (/\ pc = "found"
         /\ EarlierTiersMiss(Self, q)
         /\ ScoredPairs(Self, q) = {} \/ BestClaimedScore(Self, q) < 70
         /\ ~AllRatiosBelowThreshold(Self, q))
        => found = db[BestRatioRow(Self, q)].display_name

\* "berry" had the scored candidate Wild Blueberry with score 0.55, and got
\* Cherry, to which its ratio is 8/11; "chery" got Cherry on a table whose first
\* row, Sherry, also has a ratio above 0.7
C28_Witness ==
    /\ pc = "found"
    /\ \/ /\ query = "berry"
          /\ ScoreLoop(Self, Split(query), 1, 1, NoCandidate)[1] = "Wild Blueberry"
          /\ found = "Cherry"
       \/ /\ query = "chery"
          /\ db[1].display_name = "Sherry"
          /\ FracGE(RowRatio(Self, query, 1), Threshold)
          /\ found = "Cherry"

(***************************************************************************)
(* C24: the word index                                                     *)
(***************************************************************************)

\* w is one of the words of the lowercased name of row i
HasWord(i, w) == \E k \in 1..Len(Split(Lower(db[i].display_name))) : Split(Lower(db[i].display_name))[k] = w

\* the rows that have the word w
RowsWithWord(w) == {i \in 1..Len(db) : HasWord(i, w)}

\* the words of the names of the table
TableWords == UNION {{Split(Lower(db[i].display_name))[k] : k \in 1..Len(Split(Lower(db[i].display_name)))} : i \in 1..Len(db)}

\* C24: in the word index a multi-word food holds the slot of a word only if it
\* is the first food of the table with that word; a word that occurs only in
\* multi-word foods maps to the first of them; and the index has exactly the
\* words of more than two characters
C24_FirstMultiWordFoodKeepsSlot ==
    pc # "failed" =>
        /\ DOMAIN exact_matches = {w \in TableWords : Len(w) > 2}
        /\ \A w \in DOMAIN exact_matches :
              /\ (\A i \in RowsWithWord(w) : ~SingleWord(i))
                    => exact_matches[w] = db[Min(RowsWithWord(w))].display_name
              /\ \A i \in RowsWithWord(w) :
                    (exact_matches[w] = db[i].display_name /\ ~SingleWord(i))
                        => i = Min(RowsWithWord(w))

\* the table [Brown Rice, Rice N Peas]: "rice" occurs in two multi-word foods and
\* maps to the first, which a lookup of "rice" returned, and "n" is not in the index
C24_Witness ==
    /\ pc = "found"
    /\ query = "rice"
    /\ found = "Brown Rice"
    /\ Len(db) = 2
    /\ db[1].display_name = "Brown Rice"
    /\ db[2].display_name = "Rice N Peas"
    /\ exact_matches["rice"] = "Brown Rice"
    /\ "n" \notin DOMAIN exact_matches
    /\ "peas" \in DOMAIN exact_matches

(***************************************************************************)
(* C30: the case-insensitive scan finds nothing new                        *)
(***************************************************************************)

\* C30: the full-name index has the lowercased name of every row, so a
\* normalized fragment that equals a name ignoring case is resolved by the
\* lookup in that index, to a name equal to it ignoring case, and the scan of
\* the rows that follows the two lookups has nothing left to find
C30_ScanFindsNothingNew ==
    /\ pc # "failed" => \A i \in 1..Len(db) : SearchIndexHit(Self, Lower(db[i].display_name))
    /\ pc = "found" =>
          LET q == Normalize(query)
          IN  /\ EqualRows(Self, q) # {}
                    => SearchIndexHit(Self, q) /\ found = search_index[q] /\ Lower(found) = q
              /\ (~SearchIndexHit(Self, q) /\ ~ExactMatchesHit(Self, q)) => EqualRows(Self, q) = {}

\* " RICE " equals the name Rice ignoring case and was resolved by the index, on
\* a table with another food that has the word
C30_Witness ==
    /\ pc = "found"
    /\ query = " RICE "
    /\ found = "Rice"
    /\ EqualRows(Self, Normalize(query)) # {}
    /\ InTable("Brown Rice")

(***************************************************************************)
(* C25: a pattern whose food text resolves to nothing                      *)
(***************************************************************************)

\* the patterns, in the order they are tried, that match the segment
MatchingPatterns(segment) == {n \in 1..Len(ClaimedOrder) : Search(segment, ClaimedOrder[n])[1]}

\* the first pattern that matches the segment captures a food text that
\* resolves to nothing
FirstMatchFails(self, segment) ==
    /\ MatchingPatterns(segment) # {}
    /\ ~Truthy(PatternMention(self, segment, ClaimedOrder[Min(MatchingPatterns(segment))]).food)

\* C25: the mentions of such a segment: those of the first later pattern that
\* matches and resolves, else those of the whole segment as 1.0 serving
LaterPatternOrWholeSegment(self, segment) ==
    LET later == {n \in MatchingPatterns(segment) :
                    /\ n > Min(MatchingPatterns(segment))
                    /\ Truthy(PatternMention(self, segment, ClaimedOrder[n]).food)}
    IN  IF later # {} THEN <<PatternMention(self, segment, ClaimedOrder[Min(later)])>>
        ELSE WholeSegment(self, segment, << >>)

\* C25: when the first pattern that matches a segment captures a food text that
\* resolves to nothing, the later patterns are tried in order, and when none of
\* them yields a food the whole segment, digits and unit word included, is
\* resolved with quantity 1.0 and unit 'serving'
C25_UnresolvedMatchFallsThrough ==
    pc = "extracted" =>
        foods = MentionsBy(LAMBDA segment : IF FirstMatchFails(Self, segment)
                                            THEN LaterPatternOrWholeSegment(Self, segment)
                                            ELSE SegmentMentions(Self, segment), text)

\* "rice 2 cups apple" on a table without Apple: the cup pattern and the
\* bare-number pattern matched, "apple" and "cups apple" named no food, and the
\* whole segment gave Rice, 1.0 serving
C25_Witness ==
    /\ pc = "extracted"
    /\ text = "rice 2 cups apple"
    /\ ~InTable("Apple")
    /\ FirstMatchFails(Self, text)
    /\ MatchingPatterns(text) = {1, 5}
    /\ foods = <<Mention("Rice", Frac(1, 1), "serving", "rice 2 cups apple")>>

(***************************************************************************)
(* C26: the mentions of an extraction are all known to the aggregation     *)
(***************************************************************************)

\* C26: when get_nutrition_data has run on the mentions extracted by the same
\* matcher, its list of unknown texts is empty and its records are one per
\* mention, in the order of the mentions and with their foods and quantities
C26_ExtractedMentionsAllKnown ==
    pc = "aggregated" =>
        /\ unknown_foods = << >>
        /\ Len(nutrition_data) = Len(foods)
        /\ \A k \in 1..Len(foods) :
              /\ nutrition_data[k].food = foods[k].food
              /\ nutrition_data[k].quantity = <<foods[k].quantity, foods[k].unit>>

\* "2 apple with rice" gave two mentions and the aggregation two records, Apple
\* then Rice, and no unknown text
C26_Witness ==
    /\ pc = "aggregated"
    /\ text = "2 apple with rice"
    /\ Len(foods) = 2
    /\ Len(nutrition_data) = 2
    /\ nutrition_data[1].food = "Apple"
    /\ nutrition_data[2].food = "Rice"
    /\ unknown_foods = << >>

(***************************************************************************)
(* C27: quantities are whole numbers                                       *)
(***************************************************************************)

\* C27: every quantity returned by extract_foods_with_quantities is a whole
\* number, the text being split at every period before the patterns are tried:
\* "1.5 cups rice" gives 5 cups of the food that "rice" resolves to
C27_QuantitiesAreWhole ==
    pc = "extracted" =>
        /\ \A k \in 1..Len(foods) : foods[k].quantity[2] = 1
        /\ (text = "1.5 cups rice" /\ Truthy(find_food(Self, "rice")))
              => foods = <<Mention(find_food(Self, "rice"), Frac(5, 1), "cup", "rice")>>

\* "1.5 cups rice" was split into "1" and "5 cups rice", and gave 5 cups of Rice
C27_Witness ==
    /\ pc = "extracted"
    /\ text = "1.5 cups rice"
    /\ Segments(text) = <<"1", "5 cups rice">>
    /\ foods = <<Mention("Rice", Frac(5, 1), "cup", "rice")>>

(***************************************************************************)
(* C29: the application session                                            *)
(***************************************************************************)

\* an Analyze press with t in the text area stores nothing: the text is blank,
\* or it yields no food, or its foods yield no record
AnalysisFails(self, t) ==
    \/ Strip(t) = ""
    \/ Analysis(self, t).foods = << >>
    \/ Analysis(self, t).nutrition_data = << >>

\* the stored records are those of the latest analysis that found a food, they
\* are not empty, and the stored totals are their sums
StoredIsLatestAnalysis(self, s) ==
    /\ s.found_input # None
    /\ s.nutrition_data = get_nutrition_data(self, extract_foods_with_quantities(self, s.found_input, << >>))[1]
    /\ s.nutrition_data # << >>
    /\ \A column \in {"calories", "protein", "carbs", "fat"} :
          s.totals[column] = SumOf(s.nutrition_data, column, 1)

\* C29: in the application session, after any sequence of Analyze and Clear
\* presses, the flag 'analyzed' is True only if the stored nutrition_data is the
\* non-empty record list of the latest analysis that found a food and the stored
\* totals are its sums; an Analyze press on blank input, or one that finds no
\* food or no record, shows an error and leaves the flag, the records and the
\* totals as they were; Clear sets the flag to False
C29_SessionFollowsAnalyses ==
    [][ /\ session'.analyzed => StoredIsLatestAnalysis(Self, session')
        /\ (session'.button = "analyze" /\ AnalysisFails(Self, session'.user_input))
              => /\ session'.error # None
                 /\ session'.analyzed = session.analyzed
                 /\ session'.nutrition_data = session.nutrition_data
                 /\ session'.totals = session.totals
        /\ session'.button = "clear" => ~session'.analyzed ]_vars

====
